---- MODULE Spec2Model ----
(***************************************************************************)
(* Model of app.py: the Flask menu chat assistant.                         *)
(*                                                                         *)
(* One browser session is modelled.  Its cookie session is the pair        *)
(* (present, history): whether the key "history" is in the session, and    *)
(* the list stored under it.  Requests of the session are handled one at   *)
(* a time; the chat handler is split at the points where its position      *)
(* matters (before the completion call, between the two appends).          *)
(*                                                                         *)
(* Python strings that the code transforms (the user message, the reply)   *)
(* are sequences of one-character / token strings; slugs, which the code   *)
(* only interpolates, are TLA+ strings.                                    *)
(***************************************************************************)
EXTENDS Integers, Sequences, FiniteSets, TLC

\* ------------------------------------------------------------------ bounds
\* Accepted chat turns a session may accumulate before the model stops
\* accepting more (the code itself has no bound).
MaxChats == 2

\* ------------------------------------------------------------ input domains
Whitespace == {" "}
\* User message texts: empty, plain, and padded with whitespace on both sides.
Texts == {<<>>, <<"a">>, <<" ", "a", " ">>}

\* Python None where a string is expected (dict.get / args.get of a missing key).
None == "<None>"

\* A JSON "message" value: null or missing (isNone), or a string.
MessageValues == {[isNone |-> TRUE, text |-> <<>>]}
                 \cup {[isNone |-> FALSE, text |-> t] : t \in Texts}

Slugs == {"joes_grill", "noname", "ghost", "broken", "blank", "closed", "listy"}
RestaurantValues == {None, ""} \cup Slugs

\* The "restaurant" query parameter of a POST /chat: missing, empty, a slug
\* with a menu, a slug without one.
QueryValues == {None, "", "joes_grill", "ghost"}

\* What the completion service can do: return a choice with content, or raise.
Contents == {<<"r">>}
ErrorDetails == {<<"timeout">>}

\* ------------------------------------------------------- Python values
\* A parsed JSON value, as far as the handlers look at it: its type, whether
\* it is falsy, and for a dict the values under the keys the code reads.
JsonValue(type, empty, error, name, items) ==
    [type |-> type, empty |-> empty, error |-> error, name |-> name, items |-> items]

PyNone == JsonValue("NoneType", TRUE, <<>>, <<>>, <<>>)

\* The menus directory: path -> file.  A path outside the domain has no file.
\*   joes_grill : the menu of the spec's scenario
\*   noname     : an object without "restaurant_name"
\*   broken     : not JSON at all
\*   blank      : the empty object {}
\*   closed     : an object with a non-empty "error" key
\*   listy      : a non-empty JSON array
\* ("ghost" has no file.)
disk ==
    [p \in {"menus/joes_grill.json", "menus/noname.json", "menus/broken.json",
            "menus/blank.json", "menus/closed.json", "menus/listy.json"} |->
       CASE p = "menus/joes_grill.json" ->
              [decodes |-> TRUE,
               value |-> JsonValue("dict", FALSE, <<>>, <<"Joe's Grill">>,
                                   <<"Caesar Salad", "dairy">>)]
         [] p = "menus/noname.json" ->
              [decodes |-> TRUE,
               value |-> JsonValue("dict", FALSE, <<>>, <<>>, <<"Soup">>)]
         [] p = "menus/broken.json" ->
              [decodes |-> FALSE, value |-> PyNone]
         [] p = "menus/blank.json" ->
              [decodes |-> TRUE, value |-> JsonValue("dict", TRUE, <<>>, <<>>, <<>>)]
         [] p = "menus/closed.json" ->
              [decodes |-> TRUE,
               value |-> JsonValue("dict", FALSE, <<"closed today">>, <<>>, <<>>)]
         [] OTHER ->
              [decodes |-> TRUE, value |-> JsonValue("list", FALSE, <<>>, <<>>, <<>>)]]

\* os.path.join(BASE_DIR, "menus", f"{restaurant_name}.json")
MenuPath(restaurant_name) == "menus/" \o restaurant_name \o ".json"

load_menu_data(restaurant_name) ==
    LET path == MenuPath(restaurant_name) IN
    IF path \notin DOMAIN disk
      THEN PyNone
      ELSE IF ~disk[path].decodes
        THEN JsonValue("dict", FALSE,
                       <<"Menu file for '", restaurant_name, "' is not valid JSON.">>,
                       <<>>, <<>>)
        ELSE disk[path].value

\* `not restaurant_name`
NoRestaurant(restaurant_name) == restaurant_name \in {None, ""}

\* `not menu_data`
NotMenu(menu_data) == menu_data.empty

\* `isinstance(menu_data, dict) and menu_data.get("error")`
MenuError(menu_data) == menu_data.type = "dict" /\ menu_data.error # <<>>

\* str.strip()
RECURSIVE lstrip(_)
lstrip(s) == IF s # <<>> /\ Head(s) \in Whitespace THEN lstrip(Tail(s)) ELSE s

RECURSIVE rstrip(_)
rstrip(s) == IF s # <<>> /\ s[Len(s)] \in Whitespace
               THEN rstrip(SubSeq(s, 1, Len(s) - 1)) ELSE s

strip(s) == rstrip(lstrip(s))

\* (request.json.get("message") or "").strip()
UserInput(message) == strip(IF message.isNone \/ message.text = <<>>
                              THEN <<>> ELSE message.text)

\* request.json.get("restaurant") or request.args.get("restaurant")
RestaurantName(restaurant, arg) ==
    IF NoRestaurant(restaurant) THEN arg ELSE restaurant

\* ------------------------------------------------------------------ state
VARIABLES
    present,     \* "history" in session
    history,     \* session["history"] (<<>> while the key is absent)
    pc,          \* position of the request being handled; "idle" between requests
    messages,    \* chat(): the local `messages`
    user_input,  \* chat(): the local `user_input`
    reply,       \* chat(): the local `reply`
    resp,        \* the last HTTP response given to the session
    req,         \* record of the request being handled / last handled (history variable)
    done         \* chat requests answered since the history was last empty (history variable)

vars == <<present, history, pc, messages, user_input, reply, resp, req, done>>

Response(status, key, body) == [status |-> status, key |-> key, body |-> body]

NoResponse == Response(0, "", <<>>)

\* What Flask answers when a view raises.
InternalServerError == Response(500, "", <<"Internal Server Error">>)

NoMessage == [isNone |-> TRUE, text |-> <<>>]

\* The record kept of a request: its route; for POST /chat whether the body
\* was a JSON object, the raw "message" (kept for the requests that get as
\* far as using it), the restaurant the handler settled on and whether it was
\* missing from both body and query; whether and how the completion call
\* ended; the session as the request found it; and whether the request before
\* it was a POST /clear ("empty": of an empty or absent history).
Request(route, isObject, message, restaurant, arg) ==
    [route |-> route,
     isObject |-> isObject,
     message |-> message,
     restaurant_name |-> RestaurantName(restaurant, arg),
     absentBoth |-> restaurant = None /\ arg = None,
     completion |-> "none",
     preHistory |-> history,
     prePresent |-> present,
     afterClear |-> IF req.route # "clear" THEN "no"
                    ELSE IF req.preHistory = <<>> THEN "empty" ELSE "nonempty"]

Init ==
    /\ present = FALSE
    /\ history = <<>>
    /\ pc = "idle"
    /\ messages = <<>>
    /\ user_input = <<>>
    /\ reply = <<>>
    /\ resp = NoResponse
    /\ req = [route |-> "none", isObject |-> TRUE, message |-> NoMessage,
              restaurant_name |-> None, absentBoth |-> TRUE,
              completion |-> "none", preHistory |-> <<>>, prePresent |-> FALSE,
              afterClear |-> "no"]
    /\ done = <<>>

UserTurn(content) == [role |-> "user", content |-> content]

AssistantTurn(content) == [role |-> "assistant", content |-> content]

\* ------------------------------------------------------------------ GET /
index(arg) ==
    /\ pc = "idle"
    /\ LET restaurant_name == arg
           menu_data == load_menu_data(restaurant_name)
       IN resp' =
            IF NoRestaurant(restaurant_name)
              THEN Response(400, "", <<"Please specify a restaurant in the URL, e.g., ?restaurant=joes_grill">>)
            ELSE IF NotMenu(menu_data)
              THEN Response(404, "", <<"Menu for restaurant '", restaurant_name, "' not found.">>)
            ELSE IF MenuError(menu_data)
              THEN Response(500, "", menu_data.error)
            ELSE Response(200, "html", <<"index.html", restaurant_name>>)
    /\ req' = Request("index", TRUE, NoMessage, None, arg)
    /\ UNCHANGED <<present, history, pc, messages, user_input, reply, done>>

\* ------------------------------------------------------------ GET /healthz
healthz ==
    /\ pc = "idle"
    /\ resp' = Response(200, "", <<"ok">>)
    /\ req' = Request("healthz", TRUE, NoMessage, None, None)
    /\ UNCHANGED <<present, history, pc, messages, user_input, reply, done>>

\* -------------------------------------------------------------- POST /chat
\* The f-string of lines 71-85: the display name (the slug when the menu has
\* no "restaurant_name"), the serialized menu items, the fixed rules.
SystemPrompt(menu_data, restaurant_name) ==
    <<"You are the official menu assistant for ">>
    \o (IF menu_data.name = <<>> THEN <<restaurant_name>> ELSE menu_data.name)
    \o <<"Menu JSON (authoritative source):">> \o menu_data.items \o <<"Rules:">>

\* Variant: the prior turns put after the new user message.
BuildMessages_HistoryLast(system_prompt, hist, input) ==
    <<[role |-> "system", content |-> system_prompt], UserTurn(input)>> \o hist

BuildMessages(system_prompt, hist, input) ==
    <<[role |-> "system", content |-> system_prompt]>> \o hist \o <<UserTurn(input)>>

\* f"Error contacting OpenAI API: {str(e)}"
ErrorReply(e) == <<"Error contacting OpenAI API: ">> \o e

\* `if "history" not in session: session["history"] = []`
InitHistory == IF present THEN history ELSE <<>>

\* Line 54 on a body that is not a JSON object (an array, null, a number):
\* .get raises AttributeError before anything else is read.
ChatBadBody ==
    /\ pc = "idle"
    /\ resp' = InternalServerError
    /\ req' = Request("chat", FALSE, NoMessage, None, None)
    /\ UNCHANGED <<present, history, pc, messages, user_input, reply, done>>

\* Variant: the history initialised before the restaurant is checked.
ChatNoRestaurant_InitFirst(restaurant, arg) ==
    /\ pc = "idle"
    /\ NoRestaurant(RestaurantName(restaurant, arg))
    /\ present' = TRUE
    /\ history' = InitHistory
    /\ resp' = Response(400, "reply", <<"Restaurant not specified in request.">>)
    /\ req' = Request("chat", TRUE, NoMessage, restaurant, arg)
    /\ UNCHANGED <<pc, messages, user_input, reply, done>>

\* Lines 54-58, whatever the message.
ChatNoRestaurant(restaurant, arg) ==
    /\ pc = "idle"
    /\ NoRestaurant(RestaurantName(restaurant, arg))
    /\ resp' = Response(400, "reply", <<"Restaurant not specified in request.">>)
    /\ req' = Request("chat", TRUE, NoMessage, restaurant, arg)
    /\ UNCHANGED <<present, history, pc, messages, user_input, reply, done>>

\* Variant: the history initialised before the menu is resolved.
ChatMenuRejected_InitFirst(restaurant, arg) ==
    /\ pc = "idle"
    /\ LET restaurant_name == RestaurantName(restaurant, arg)
           menu_data == load_menu_data(restaurant_name)
       IN /\ ~NoRestaurant(restaurant_name)
          /\ NotMenu(menu_data) \/ MenuError(menu_data)
          /\ resp' = IF NotMenu(menu_data)
                       THEN Response(404, "reply",
                                     <<"Menu for restaurant '", restaurant_name, "' not found.">>)
                       ELSE Response(500, "reply", menu_data.error)
    /\ present' = TRUE
    /\ history' = InitHistory
    /\ req' = Request("chat", TRUE, NoMessage, restaurant, arg)
    /\ UNCHANGED <<pc, messages, user_input, reply, done>>

\* Lines 54-64, whatever the message.
ChatMenuRejected(restaurant, arg) ==
    /\ pc = "idle"
    /\ LET restaurant_name == RestaurantName(restaurant, arg)
           menu_data == load_menu_data(restaurant_name)
       IN /\ ~NoRestaurant(restaurant_name)
          /\ NotMenu(menu_data) \/ MenuError(menu_data)
          /\ resp' = IF NotMenu(menu_data)
                       THEN Response(404, "reply",
                                     <<"Menu for restaurant '", restaurant_name, "' not found.">>)
                       ELSE Response(500, "reply", menu_data.error)
    /\ req' = Request("chat", TRUE, NoMessage, restaurant, arg)
    /\ UNCHANGED <<present, history, pc, messages, user_input, reply, done>>

\* Lines 54-72 on a menu that is valid JSON, truthy, and not an object: the
\* history is initialised, then menu_data.get raises AttributeError.  Whether
\* the session written so far reaches the client depends on how Flask handles
\* the exception (saved with the 500 response, or lost when it propagates).
ChatPromptCrash(restaurant, arg, saved) ==
    /\ pc = "idle"
    /\ LET restaurant_name == RestaurantName(restaurant, arg)
           menu_data == load_menu_data(restaurant_name)
       IN /\ ~NoRestaurant(restaurant_name)
          /\ ~NotMenu(menu_data) /\ ~MenuError(menu_data)
          /\ menu_data.type # "dict"
    /\ present' = (present \/ saved)
    /\ history' = InitHistory
    /\ resp' = InternalServerError
    /\ req' = Request("chat", TRUE, NoMessage, restaurant, arg)
    /\ UNCHANGED <<pc, messages, user_input, reply, done>>

\* Variant: the user turn saved to the history before the completion call.
ChatBuild_SaveFirst(message, restaurant, arg) ==
    /\ pc = "idle"
    /\ Len(history) < 2 * MaxChats
    /\ LET restaurant_name == RestaurantName(restaurant, arg)
           menu_data == load_menu_data(restaurant_name)
       IN /\ ~NoRestaurant(restaurant_name)
          /\ ~NotMenu(menu_data) /\ ~MenuError(menu_data)
          /\ menu_data.type = "dict"
          /\ messages' = BuildMessages(SystemPrompt(menu_data, restaurant_name),
                                       InitHistory, UserInput(message))
    /\ user_input' = UserInput(message)
    /\ present' = TRUE
    /\ history' = Append(InitHistory, UserTurn(UserInput(message)))
    /\ pc' = "call"
    /\ req' = Request("chat", TRUE, message, restaurant, arg)
    /\ UNCHANGED <<reply, resp, done>>

\* Lines 54-91 on a request that goes through: up to the completion call.
ChatBuild(message, restaurant, arg) ==
    /\ pc = "idle"
    /\ Len(history) < 2 * MaxChats
    /\ LET restaurant_name == RestaurantName(restaurant, arg)
           menu_data == load_menu_data(restaurant_name)
       IN /\ ~NoRestaurant(restaurant_name)
          /\ ~NotMenu(menu_data) /\ ~MenuError(menu_data)
          /\ menu_data.type = "dict"
          /\ messages' = BuildMessages(SystemPrompt(menu_data, restaurant_name),
                                       InitHistory, UserInput(message))
    /\ user_input' = UserInput(message)
    /\ present' = TRUE
    /\ history' = InitHistory
    /\ pc' = "call"
    /\ req' = Request("chat", TRUE, message, restaurant, arg)
    /\ UNCHANGED <<reply, resp, done>>

\* Variant: no try/except around the completion call; a failure ends the
\* request with a server error.
ChatCall_Unhandled ==
    /\ pc = "call"
    /\ \/ \E content \in Contents :
            /\ reply' = content
            /\ req' = [req EXCEPT !.completion = "ok"]
            /\ pc' = "saveUser"
            /\ UNCHANGED <<messages, user_input, resp>>
       \/ /\ req' = [req EXCEPT !.completion = "fail"]
          /\ resp' = InternalServerError
          /\ pc' = "idle"
          /\ messages' = <<>>
          /\ user_input' = <<>>
          /\ UNCHANGED reply
    /\ UNCHANGED <<present, history, done>>

\* Lines 93-103: the completion call returns a reply, or raises and the
\* handler makes the reply from the exception.
ChatCall ==
    /\ pc = "call"
    /\ \/ \E content \in Contents :
            /\ reply' = content
            /\ req' = [req EXCEPT !.completion = "ok"]
       \/ \E e \in ErrorDetails :
            /\ reply' = ErrorReply(e)
            /\ req' = [req EXCEPT !.completion = "fail"]
    /\ pc' = "saveUser"
    /\ UNCHANGED <<present, history, messages, user_input, resp, done>>

\* Variant: the user turn inserted at the front of the history.
ChatSaveUser_Prepend ==
    /\ pc = "saveUser"
    /\ history' = <<UserTurn(user_input)>> \o history
    /\ pc' = "saveAssistant"
    /\ UNCHANGED <<present, messages, user_input, reply, resp, req, done>>

\* Line 106.
ChatSaveUser ==
    /\ pc = "saveUser"
    /\ history' = Append(history, UserTurn(user_input))
    /\ pc' = "saveAssistant"
    /\ UNCHANGED <<present, messages, user_input, reply, resp, req, done>>

\* Variant: the assistant turn saved only when the completion call succeeded.
ChatSaveAssistant_OnSuccessOnly ==
    /\ pc = "saveAssistant"
    /\ history' = IF req.completion = "ok"
                    THEN Append(history, AssistantTurn(reply)) ELSE history
    /\ resp' = Response(200, "reply", reply)
    /\ done' = Append(done, [message |-> req.message, reply |-> reply])
    /\ pc' = "idle"
    /\ messages' = <<>>
    /\ user_input' = <<>>
    /\ reply' = <<>>
    /\ UNCHANGED <<present, req>>

\* Lines 107-110.
ChatSaveAssistant ==
    /\ pc = "saveAssistant"
    /\ history' = Append(history, AssistantTurn(reply))
    /\ resp' = Response(200, "reply", reply)
    /\ done' = Append(done, [message |-> req.message, reply |-> reply])
    /\ pc' = "idle"
    /\ messages' = <<>>
    /\ user_input' = <<>>
    /\ reply' = <<>>
    /\ UNCHANGED <<present, req>>

\* ------------------------------------------------------------- POST /clear
\* Variant: the pop names a key the session never holds.
clear_WrongKey ==
    /\ pc = "idle"
    /\ resp' = Response(200, "status", <<"cleared">>)
    /\ req' = Request("clear", TRUE, NoMessage, None, None)
    /\ done' = <<>>
    /\ UNCHANGED <<present, history, pc, messages, user_input, reply>>

clear ==
    /\ pc = "idle"
    /\ present' = FALSE
    /\ history' = <<>>
    /\ resp' = Response(200, "status", <<"cleared">>)
    /\ req' = Request("clear", TRUE, NoMessage, None, None)
    /\ done' = <<>>
    /\ UNCHANGED <<pc, messages, user_input, reply>>

Next ==
    \/ \E arg \in RestaurantValues : index(arg)
    \/ ChatBadBody
    \/ \E restaurant \in RestaurantValues, arg \in QueryValues :
          ChatNoRestaurant(restaurant, arg)
    \/ \E restaurant \in RestaurantValues, arg \in QueryValues :
          ChatMenuRejected(restaurant, arg)
    \/ \E restaurant \in RestaurantValues, arg \in QueryValues, saved \in BOOLEAN :
          ChatPromptCrash(restaurant, arg, saved)
    \/ \E message \in MessageValues, restaurant \in RestaurantValues, arg \in QueryValues :
          ChatBuild(message, restaurant, arg)
    \/ ChatCall
    \/ ChatSaveUser
    \/ ChatSaveAssistant
    \/ clear
    \/ healthz

Spec == Init /\ [][Next]_vars

\* ================================================================ claims
\* A text without its leading and trailing whitespace, said without strip():
\* the stretch from the first to the last character that is not whitespace.
Trimmed(t) ==
    LET inner == {i \in 1..Len(t) : t[i] \notin Whitespace} IN
    IF inner = {} THEN <<>>
    ELSE SubSeq(t, CHOOSE i \in inner : \A j \in inner : i <= j,
                   CHOOSE i \in inner : \A j \in inner : j <= i)

\* The text a request's message stands for: nothing when it is missing or null.
MessageText(message) == IF message.isNone THEN <<>> ELSE message.text

ErrorStrings == {<<"Error contacting OpenAI API: ">> \o e : e \in ErrorDetails}

RECURSIVE TrimmedTurns(_)
TrimmedTurns(log) ==
    IF log = <<>> THEN <<>>
    ELSE TrimmedTurns(SubSeq(log, 1, Len(log) - 1))
         \o << [role |-> "user", content |-> Trimmed(MessageText(log[Len(log)].message))],
               [role |-> "assistant", content |-> log[Len(log)].reply] >>

RECURSIVE RawTurns(_)
RawTurns(log) ==
    IF log = <<>> THEN <<>>
    ELSE RawTurns(SubSeq(log, 1, Len(log) - 1))
         \o << [role |-> "user", content |-> MessageText(log[Len(log)].message)],
               [role |-> "assistant", content |-> log[Len(log)].reply] >>

\* C1 (as amended): between requests, after the N chat requests answered since
\* the history was last empty, the history has exactly 2N turns: for the i-th
\* request, turn 2i-1 is the user turn carrying that request's message with
\* its leading and trailing whitespace removed (empty when the message is
\* missing), and turn 2i is the assistant turn carrying that request's reply.
C1_TwoTurnsPerChat ==
    pc = "idle" =>
        /\ Len(history) = 2 * Len(done)
        /\ history = TrimmedTurns(done)

\* C1 as stated: the user turn carries the request's message itself.
C1_AsStated ==
    pc = "idle" =>
        /\ Len(history) = 2 * Len(done)
        /\ history = RawTurns(done)

C1_Witness ==
    /\ pc = "idle"
    /\ Len(done) = 2
    /\ done[1].message.text = <<" ", "a", " ">>
    /\ done[1].reply \in ErrorStrings
    /\ done[2].message.text = <<"a">>
    /\ done[2].reply \in Contents
    /\ Len(history) = 4

\* C2 (as amended): the message list sent to the completion service is one
\* system-role message, then every turn of the history as the request found
\* it, unchanged and in order, then one user-role message carrying the new
\* message with its leading and trailing whitespace removed (empty when the
\* message is missing); its length is len(history) + 2.
C2_MessagesSent ==
    pc = "call" =>
        /\ Len(messages) = Len(req.preHistory) + 2
        /\ messages[1].role = "system"
        /\ \A i \in 2..Len(messages) : messages[i].role # "system"
        /\ SubSeq(messages, 2, Len(messages) - 1) = req.preHistory
        /\ messages[Len(messages)] =
             [role |-> "user", content |-> Trimmed(MessageText(req.message))]

\* C2 as stated: the last message carries the new user message itself.
C2_AsStated ==
    pc = "call" =>
        /\ Len(messages) = Len(req.preHistory) + 2
        /\ messages[1].role = "system"
        /\ \A i \in 2..Len(messages) : messages[i].role # "system"
        /\ SubSeq(messages, 2, Len(messages) - 1) = req.preHistory
        /\ messages[Len(messages)] =
             [role |-> "user", content |-> MessageText(req.message)]

C2_Witness ==
    /\ pc = "call"
    /\ Len(req.preHistory) = 2
    /\ req.message.text = <<" ", "a", " ">>
    /\ Len(messages) = 4

\* C3: when the completion call fails, the request is answered 200 with the
\* synthesized error string as its reply, and the history is the one the
\* request found plus the user turn and then an assistant turn carrying that
\* same string.
C3_FailureIsAReply ==
    (pc = "idle" /\ req.route = "chat" /\ req.completion = "fail") =>
        /\ resp.status = 200
        /\ resp.key = "reply"
        /\ resp.body \in ErrorStrings
        /\ Len(history) = Len(req.preHistory) + 2
        /\ SubSeq(history, 1, Len(req.preHistory)) = req.preHistory
        /\ history[Len(history) - 1].role = "user"
        /\ history[Len(history)] = [role |-> "assistant", content |-> resp.body]

C3_Witness ==
    /\ pc = "idle"
    /\ req.route = "chat"
    /\ req.completion = "fail"
    /\ resp.status = 200
    /\ Len(req.preHistory) = 2
    /\ history[4].content \in ErrorStrings

C5_AsStated ==
    (pc = "idle" /\ req.route \in {"index", "chat"} /\ req.isObject
       /\ ~NoRestaurant(req.restaurant_name)) =>
        LET path == MenuPath(req.restaurant_name)
            exists == path \in DOMAIN disk
            invalid == exists /\ (\/ ~disk[path].decodes
                                  \/ disk[path].value.type # "dict"
                                  \/ disk[path].value.error # <<>>)
        IN /\ resp.status = 404 <=> ~exists
           /\ resp.status = 500 <=> invalid

\* C6: POST /clear leaves no history whatever it found and answers
\* {"status": "cleared"}; the chat request that directly follows a clear
\* reads an empty history (its message list is just the system and the user
\* message), and once answered leaves exactly two turns, its own.
C6_ClearEmpties ==
    /\ (pc = "idle" /\ req.route = "clear") =>
          /\ ~present
          /\ history = <<>>
          /\ resp = Response(200, "status", <<"cleared">>)
    /\ (req.route = "chat" /\ req.afterClear # "no" /\ pc = "call") =>
          Len(messages) = 2
    /\ (req.route = "chat" /\ req.afterClear # "no" /\ pc = "idle"
          /\ resp.status = 200) =>
          /\ Len(history) = 2
          /\ history[1].role = "user"
          /\ history[2] = [role |-> "assistant", content |-> resp.body]

C6_Witness ==
    /\ req.route = "chat"
    /\ req.afterClear = "nonempty"
    /\ pc = "idle"
    /\ resp.status = 200
    /\ Len(history) = 2

\* C7 as stated: a chat request whose message is missing, null or empty ends
\* in input validation: no completion call is made for it and no turn is
\* appended.
C7_AsStated ==
    (req.route = "chat" /\ req.isObject /\ MessageText(req.message) = <<>>) =>
        /\ req.completion = "none"
        /\ Len(history) = Len(req.preHistory)

\* C8: in a chat request that goes through, the message list is built from
\* the history, then the completion call is made and returns, and only then
\* are two turns appended, the user turn first, the assistant turn second;
\* while the call is in progress the history holds no turn of the request.
C8_CallThenAppend ==
    req.route = "chat" =>
        /\ pc = "call" =>
              /\ req.completion = "none"
              /\ history = req.preHistory
              /\ Len(messages) = Len(req.preHistory) + 2
        /\ pc = "saveUser" =>
              /\ req.completion # "none"
              /\ history = req.preHistory
        /\ pc = "saveAssistant" =>
              /\ req.completion # "none"
              /\ Len(history) = Len(req.preHistory) + 1
              /\ SubSeq(history, 1, Len(req.preHistory)) = req.preHistory
              /\ history[Len(history)].role = "user"
        /\ (pc = "idle" /\ req.completion # "none") =>
              /\ Len(history) = Len(req.preHistory) + 2
              /\ SubSeq(history, 1, Len(req.preHistory)) = req.preHistory
              /\ history[Len(history) - 1].role = "user"
              /\ history[Len(history)].role = "assistant"
        /\ (pc = "idle" /\ req.completion = "none") => history = req.preHistory

C8_Witness ==
    /\ req.route = "chat"
    /\ pc = "saveAssistant"
    /\ req.completion = "ok"
    /\ Len(req.preHistory) = 2
    /\ Len(history) = 3

\* C9: a POST /chat answered 404 or 500 at menu resolution (a slug with no
\* file, or a file that is not JSON) has made no completion call and leaves
\* the session as it was, not even an empty history created; GET / and
\* GET /healthz never touch the history nor call the completion service.
C9_RejectionsLeaveSession ==
    /\ (req.route = "chat" /\ req.isObject /\ ~NoRestaurant(req.restaurant_name)
          /\ (\/ MenuPath(req.restaurant_name) \notin DOMAIN disk
              \/ ~disk[MenuPath(req.restaurant_name)].decodes)) =>
          /\ pc = "idle"
          /\ resp.key = "reply"
          /\ resp.status = IF MenuPath(req.restaurant_name) \notin DOMAIN disk
                             THEN 404 ELSE 500
    /\ (req.route = "chat" /\ pc = "idle" /\ resp.key = "reply"
          /\ resp.status \in {404, 500}) =>
          /\ history = req.preHistory
          /\ present = req.prePresent
          /\ req.completion = "none"
    /\ req.route \in {"index", "healthz"} =>
          /\ pc = "idle"
          /\ history = req.preHistory
          /\ present = req.prePresent
          /\ req.completion = "none"

C9_Witness ==
    /\ req.route = "chat"
    /\ pc = "idle"
    /\ resp.key = "reply"
    /\ resp.status = 500
    /\ ~req.prePresent /\ ~present

\* C10: between requests the history has even length and its roles alternate
\* user, assistant, user, assistant, ... from a user turn on; it holds no
\* system turn and does not end on a user turn.
C10_Alternation ==
    pc = "idle" =>
        /\ Len(history) % 2 = 0
        /\ \A i \in 1..Len(history) :
              history[i].role = IF i % 2 = 1 THEN "user" ELSE "assistant"
        /\ ~present => history = <<>>

C10_Witness ==
    /\ pc = "idle"
    /\ Len(history) = 4
    /\ req.route = "chat"
    /\ resp.status = 404
    /\ \E i \in 1..4 : history[i].content \in ErrorStrings
====
